---- MODULE Spec2Model ----
(***************************************************************************)
(* Pharma downtime monitor: acquisition (read_sensors), risk scoring       *)
(* (calculate_downtime_risk, get_status_from_risk), the per-tick event log  *)
(* with its database hand-off (log_event), the websocket fan-out, the      *)
(* get_sensors request and the shutdown half of lifespan of src/main.py,    *)
(* and the ConnectionManager of src/app/core/ws_manager.py with its         *)
(* callers.                                                                 *)
(*                                                                         *)
(* Units.  Channel values are kept in hundredths of their unit (35.0 C is   *)
(* 3500, 2.5 G is 250, 8.0 A is 800); risk scores are kept in thousandths   *)
(* (0.4 is 400, 1.0 is 1000).  Every penalty and threshold of the source is *)
(* a multiple of 0.01, and the sums the source forms in binary floating     *)
(* point classify exactly as the decimal sums do, so the scaling is exact.  *)
(***************************************************************************)
EXTENDS Integers, Sequences, FiniteSets, TLC

VARIABLES
    sensor_data,    \* the module-level reading: channel -> [value, status]
    RASPBERRY_PI,   \* module-level flag, fixed once the module is imported
    hardware,       \* SensorManager.hardware is set (hardware_sensors is not None)
    read_errors,    \* SensorManager.read_errors
    running,        \* SensorManager.running
    pc,             \* where the start_monitoring task stands
    ticks,          \* history: number of loop iterations started
    events_log,     \* the module-level events_log (each event by its timestamp)
    event,          \* the event built by the running log_event call
    db,             \* what the latest log_event call handed to db_service
    save_calls,     \* history: calls of db_service.save_sensor_reading so far
    connected_websockets, \* the module-level list of accepted websockets
    ws_i,           \* position of the running for-loop over connected_websockets
    ws_state,       \* per websocket: "new", "open", or "closed" (its peer is gone)
    received,       \* history: per websocket, the messages delivered to it
    bcast,          \* history: connected_websockets as log_event's loop found it
    send_failed,    \* history: the websockets a send of the current tick raised for
    last_ok,        \* history: the last tick whose hardware cycle did not raise
    peers,          \* the websocket clients of the run
    db_faults,      \* whether the database can fail in this run
    track,          \* whether the run records rule_first
    arrival,        \* the first tick at which websocket clients connect
    cancel,         \* task.cancel() was called and its CancelledError is pending
    stop_requested, \* history: the shutdown half of lifespan has run
    tick_done,      \* history: the last tick whose new_event / sensor_update loop ended
    streak,         \* history: per channel, consecutive cycles whose read failed
    risk,           \* scoring runs: the last calculate_downtime_risk call
    rule_first,     \* history: the first rule-based assessment log_event made
    active_connections, \* ConnectionManager.active_connections
    lock,           \* ConnectionManager._lock: "free" or the task holding it
    waiters,        \* the tasks queued on ConnectionManager._lock, oldest first
    bpc,            \* per broadcast call: where it stands
    hpc,            \* per websocket_monitor handler: where it stands
    hub_i,          \* position of broadcast's for-loop over active_connections
    to_remove,      \* broadcast's local to_remove
    hub_ws,         \* per websocket of the manager: "open", "closed", "stalled"
    hub_recv,       \* history: per websocket, the broadcasts delivered to it
    called,         \* history: the broadcast calls in the order they were made
    queued,         \* history: the broadcast calls that had to queue on the lock
    acq,            \* read_sensors taken statement by statement: what is left to write
    stamp,          \* history: per channel, the tick that last wrote value and status
    seen            \* what the latest get_sensors request returned

\* fixed when the program starts
config_vars == <<RASPBERRY_PI, hardware, peers, db_faults, track, arrival>>
\* the shutdown side
stop_vars == <<cancel, stop_requested, tick_done>>
\* written by the scoring runs only
score_vars == <<risk>>
\* the websocket side
ws_vars == <<connected_websockets, ws_state, received>>
\* histories written by read_sensors, log_event and the send loops
hist_vars == <<streak, rule_first, bcast, send_failed, last_ok>>
\* the persistence side
db_vars == <<db, save_calls>>

\* the statement-level view of read_sensors and its observer
obs_vars == <<acq, stamp, seen>>

loop_vars == <<sensor_data, read_errors, running, pc, ticks, events_log, event,
               ws_i, hist_vars, db_vars, ws_vars, config_vars, stop_vars, obs_vars>>

\* app/core/ws_manager.py and its callers
hub_vars == <<active_connections, lock, waiters, bpc, hpc, hub_i, to_remove,
              hub_ws, hub_recv, called, queued>>

vars == <<loop_vars, score_vars, hub_vars>>

Channels ==
    {"temperature", "machine_temperature", "vibration", "humidity", "current", "load"}

Statuses == {"offline", "online", "simulated", "error"}

None == [kind |-> "none"]

(***************************************************************************)
(* Configuration: app/core/config.py, Settings.THRESHOLDS (hundredths).    *)
(***************************************************************************)
THRESHOLDS ==
    [temperature |->
        [normal_min |-> 2000, normal_max |-> 2500,
         warning_max |-> 3000, critical_max |-> 3500],
     machine_temperature |->
        [normal_min |-> 6500, normal_max |-> 8000,
         warning_max |-> 8500, critical_max |-> 9000],
     vibration |->
        [normal_max |-> 250, warning_max |-> 400, critical_max |-> 600],
     humidity |->
        [normal_min |-> 4000, normal_max |-> 6000,
         warning_min |-> 3000, warning_max |-> 7000],
     current |->
        [normal_min |-> 100, normal_max |-> 500,
         warning_max |-> 800, critical_max |-> 1000]]

(***************************************************************************)
(* The module-level sensor_data dictionary as the program starts with it.  *)
(***************************************************************************)
InitialSensorData ==
    [temperature         |-> [value |-> 2250, status |-> "offline"],
     machine_temperature |-> [value |-> 7500, status |-> "offline"],
     vibration           |-> [value |-> 180,  status |-> "offline"],
     humidity            |-> [value |-> 5500, status |-> "offline"],
     current             |-> [value |-> 320,  status |-> "offline"],
     load                |-> [value |-> 7500, status |-> "offline"]]

(***************************************************************************)
(* Shift of the wall-clock hour (calculate_downtime_risk, first lines).    *)
(***************************************************************************)
ShiftOfHour(h) ==
    IF 6 <= h /\ h < 14 THEN 1
    ELSE IF 14 <= h /\ h < 22 THEN 2
    ELSE 3

(***************************************************************************)
(* app/ml/model.py predict_downtime.  ml is what the model call does:      *)
(*   kind "raise": the import of app.ml.model or train_model() (both       *)
(*                 outside the function's try) raises, so the exception     *)
(*                 leaves predict_downtime;                                 *)
(*   kind "error": joblib.load / predict / predict_proba raises inside the *)
(*                 try: the except returns probability 0.0, UNKNOWN;        *)
(*   kind "ok":    the model answers probability p (round(.,3)).           *)
(* The call is synchronous and has no timeout.                             *)
(***************************************************************************)
predict_downtime(ml) ==
    CASE ml.kind = "raise" -> [raised |-> TRUE,  downtime_probability |-> 0,
                               risk_level |-> "NONE"]
      [] ml.kind = "error" -> [raised |-> FALSE, downtime_probability |-> 0,
                               risk_level |-> "UNKNOWN"]
      [] OTHER             -> [raised |-> FALSE, downtime_probability |-> ml.p,
                               risk_level |-> IF ml.p > 700 THEN "HIGH"
                                              ELSE IF ml.p > 400 THEN "MEDIUM"
                                              ELSE "LOW"]

(***************************************************************************)
(* The per-channel penalty terms of the rule-based fallback.               *)
(***************************************************************************)
TemperaturePenalty(amb_temp) ==
    LET t == THRESHOLDS.temperature IN
    IF amb_temp > t.critical_max THEN 300
    ELSE IF amb_temp > t.warning_max THEN 150
    ELSE IF amb_temp < t.normal_min THEN 100
    ELSE 0

\* Faulty variant: the warning band is tested before the critical band, so
\* the critical penalty is never reached.
MachineTemperaturePenaltyWarningFirst(machine_temp) ==
    LET t == THRESHOLDS.machine_temperature IN
    IF machine_temp > t.warning_max THEN 200
    ELSE IF machine_temp > t.critical_max THEN 400
    ELSE IF machine_temp < t.normal_min THEN 150
    ELSE 0

MachineTemperaturePenalty(machine_temp) ==
    LET t == THRESHOLDS.machine_temperature IN
    IF machine_temp > t.critical_max THEN 400
    ELSE IF machine_temp > t.warning_max THEN 200
    ELSE IF machine_temp < t.normal_min THEN 150
    ELSE 0

HumidityPenalty(humidity) ==
    LET t == THRESHOLDS.humidity IN
    IF humidity > t.warning_max THEN 150
    ELSE IF humidity < t.warning_min THEN 100
    ELSE 0

\* Faulty variant: the comparisons point the wrong way.
VibrationPenaltyInverted(vibration) ==
    LET t == THRESHOLDS.vibration IN
    IF vibration < t.critical_max THEN 500
    ELSE IF vibration < t.warning_max THEN 250
    ELSE IF vibration < t.normal_max THEN 100
    ELSE 0

VibrationPenalty(vibration) ==
    LET t == THRESHOLDS.vibration IN
    IF vibration > t.critical_max THEN 500
    ELSE IF vibration > t.warning_max THEN 250
    ELSE IF vibration > t.normal_max THEN 100
    ELSE 0

CurrentPenalty(current) ==
    LET t == THRESHOLDS.current IN
    IF current > t.critical_max THEN 300
    ELSE IF current > t.warning_max THEN 150
    ELSE 0

ShiftPenalty(shift) ==
    IF shift = 3 THEN 80
    ELSE IF shift = 2 THEN 30
    ELSE 0

(***************************************************************************)
(* The penalty a channel's stored value contributes; load has no term.     *)
(***************************************************************************)
ChannelPenalty(c, v) ==
    CASE c = "temperature"         -> TemperaturePenalty(v)
      [] c = "machine_temperature" -> MachineTemperaturePenalty(v)
      [] c = "humidity"            -> HumidityPenalty(v)
      [] c = "vibration"           -> VibrationPenalty(v)
      [] c = "current"             -> CurrentPenalty(v)
      [] OTHER                     -> 0

\* Faulty variant: risk_score is not reset to 0.0, the sum starts from the
\* score of an earlier rule-based call.
rule_based_risk_carried(sd, shift) ==
    (IF rule_first = None THEN 0 ELSE rule_first.score)
    + ChannelPenalty("temperature", sd["temperature"].value)
    + ChannelPenalty("machine_temperature", sd["machine_temperature"].value)
    + ChannelPenalty("humidity", sd["humidity"].value)
    + ChannelPenalty("vibration", sd["vibration"].value)
    + ChannelPenalty("current", sd["current"].value)
    + ShiftPenalty(shift)

(***************************************************************************)
(* The rule-based fallback of calculate_downtime_risk, before the clamp:   *)
(* it reads the stored values only, never a channel's status.              *)
(***************************************************************************)
rule_based_risk(sd, shift) ==
    ChannelPenalty("temperature", sd["temperature"].value)
    + ChannelPenalty("machine_temperature", sd["machine_temperature"].value)
    + ChannelPenalty("humidity", sd["humidity"].value)
    + ChannelPenalty("vibration", sd["vibration"].value)
    + ChannelPenalty("current", sd["current"].value)
    + ShiftPenalty(shift)

Min(a, b) == IF a < b THEN a ELSE b
Max(a, b) == IF a > b THEN a ELSE b

\* Faulty variant: the raw sum is returned without the clamp.
ClampRiskMissing(risk_score) == risk_score

(***************************************************************************)
(* return min(1.0, max(0.0, risk_score))                                   *)
(***************************************************************************)
ClampRisk(risk_score) == Min(1000, Max(0, risk_score))

(***************************************************************************)
(* SensorManager.calculate_downtime_risk.  h is the clock's hour, ml the   *)
(* model call's outcome, fault an exception raised inside the outer try    *)
(* (answered by the outer except with 0.2).  source names the branch that  *)
(* produced the score; the source keeps no such tag.                       *)
(***************************************************************************)
calculate_downtime_risk(sd, h, ml, fault) ==
    LET shift     == ShiftOfHour(h)
        ml_result == predict_downtime(ml)
    IN  IF fault
        THEN [score |-> 200, source |-> "default", shift |-> shift]
        ELSE IF ~ml_result.raised
        THEN [score |-> ClampRisk(ml_result.downtime_probability),
              source |-> "ml-based", shift |-> shift]
        ELSE [score |-> ClampRisk(rule_based_risk(sd, shift)),
              source |-> "rule-based", shift |-> shift]

\* Faulty variant: the thresholds are compared with > instead of >=.
get_status_from_risk_exclusive(risk_score) ==
    IF risk_score > 700 THEN "CRITICAL"
    ELSE IF risk_score > 400 THEN "WARNING"
    ELSE "OK"

(***************************************************************************)
(* SensorManager.get_status_from_risk                                      *)
(***************************************************************************)
get_status_from_risk(risk_score) ==
    IF risk_score >= 700 THEN "CRITICAL"
    ELSE IF risk_score >= 400 THEN "WARNING"
    ELSE "OK"

(***************************************************************************)
(* Inputs of the scoring specification.                                    *)
(***************************************************************************)
ProbValues == {0, 399, 400, 699, 700, 1000}

MLOutcomes ==
    {[kind |-> "raise", p |-> 0], [kind |-> "error", p |-> 0]}
    \cup {[kind |-> "ok", p |-> p] : p \in ProbValues}

Hours == {5, 6, 13, 14, 21, 22}

TestValues ==
    [temperature         |-> {1900, 2300, 3100, 3600},
     machine_temperature |-> {6000, 7500, 8600, 9500},
     vibration           |-> {150, 300, 600, 650},
     humidity            |-> {2500, 5500, 7500},
     current             |-> {350, 900, 1100},
     load                |-> {7500}]

StatusProfiles ==
    {[c \in Channels |-> "simulated"],
     [c \in Channels |-> "offline"],
     [c \in Channels |-> IF c = "machine_temperature" THEN "simulated" ELSE "online"]}

MkReading(a, m, v, h, c, st) ==
    [temperature         |-> [value |-> a,    status |-> st["temperature"]],
     machine_temperature |-> [value |-> m,    status |-> st["machine_temperature"]],
     vibration           |-> [value |-> v,    status |-> st["vibration"]],
     humidity            |-> [value |-> h,    status |-> st["humidity"]],
     current             |-> [value |-> c,    status |-> st["current"]],
     load                |-> [value |-> 7500, status |-> st["load"]]]

Readings ==
    {MkReading(a, m, v, h, c, st) :
        a \in TestValues.temperature, m \in TestValues.machine_temperature,
        v \in TestValues.vibration, h \in TestValues.humidity,
        c \in TestValues.current, st \in StatusProfiles}

(***************************************************************************)
(* One call of calculate_downtime_risk on reading sd, followed by          *)
(* get_status_from_risk as log_event and save_sensor_reading do.           *)
(***************************************************************************)
Assess(sd, h, ml, fault) ==
    LET r == calculate_downtime_risk(sd, h, ml, fault)
    IN  [kind |-> "risk", score |-> r.score, source |-> r.source,
         shift |-> r.shift, status |-> get_status_from_risk(r.score)]

(* What a caller learns about the branch that produced a score:            *)
(* calculate_downtime_risk returns the clamped float alone, the branch is  *)
(* only logged (logger.debug, logger.warning), and the event dictionary    *)
(* log_event builds from the score has no key for it.                      *)
ReportedTag(a) == "untagged"

(* A scoring run: one call on the reading of the run, under every hour and *)
(* every outcome of the model call; risk keeps the call's result together  *)
(* with what the model call did and with what the caller is told of the    *)
(* branch.                                                                 *)
Score ==
    /\ risk = None
    /\ \E h \in Hours, ml \in MLOutcomes, fault \in BOOLEAN :
        LET a == Assess(sensor_data, h, ml, fault)
        IN  /\ risk' = [kind |-> "risk", score |-> a.score, source |-> a.source,
                        shift |-> a.shift, status |-> a.status,
                        ml |-> ml.kind, fault |-> fault,
                        p |-> ml.p, tag |-> ReportedTag(a)]
            /\ UNCHANGED <<loop_vars, hub_vars>>

Sockets == {"w1", "w2"}

\* the broadcast calls of a run (receive_sensor_data requests)
Broadcasts == {"b1", "b2", "b3"}

NoDbCall == [saved |-> FALSE, downtime |-> FALSE, error |-> FALSE, stored |-> None]

InitProgram ==
    /\ read_errors = 0
    /\ running = FALSE
    /\ pc = "start"
    /\ ticks = 0
    /\ events_log = <<>>
    /\ event = None
    /\ db = NoDbCall
    /\ save_calls = 0
    /\ connected_websockets = <<>>
    /\ ws_i = 0
    /\ ws_state = [w \in Sockets |-> "new"]
    /\ received = [w \in Sockets |-> <<>>]
    /\ streak = [c \in Channels |-> 0]
    /\ bcast = None
    /\ send_failed = {}
    /\ last_ok = 0
    /\ acq = None
    /\ stamp = [c \in Channels |-> [value |-> 0, status |-> 0]]
    /\ seen = None
    /\ cancel = FALSE
    /\ stop_requested = FALSE
    /\ tick_done = [event |-> 0, update |-> 0]
    /\ active_connections = <<>>
    /\ lock = "free"
    /\ waiters = <<>>
    /\ bpc = [b \in Broadcasts |-> "idle"]
    /\ hpc = [w \in Sockets |-> "new"]
    /\ hub_i = 0
    /\ to_remove = <<>>
    /\ hub_ws = [w \in Sockets |-> "open"]
    /\ hub_recv = [w \in Sockets |-> <<>>]
    /\ called = <<>>
    /\ queued = {}
    /\ risk = None
    /\ rule_first = None

InitRisk ==
    /\ InitProgram
    /\ RASPBERRY_PI = FALSE
    /\ hardware = FALSE
    /\ peers = {}
    /\ db_faults = FALSE
    /\ track = FALSE
    /\ arrival = 0
    /\ sensor_data \in Readings

NextRisk == Score

SpecRisk == InitRisk /\ [][NextRisk]_vars

(***************************************************************************)
(* Acquisition.  get_realistic_simulation_data draws each channel from a   *)
(* continuous range; one value per threshold band the range meets stands   *)
(* for the band: ambient 22 +- 3.5 reaches below normal_min 20, vibration  *)
(* reaches past normal_max 2.5 and just past warning_max 4.0, machine      *)
(* temperature 69..82, humidity 45..65 and current 2.2..5.0 stay in band.  *)
(***************************************************************************)
LoadOf(current) == (current * 25) \div 2      \* (current / 8.0) * 100

SimData ==
    {[ambient_temp |-> a, machine_temp |-> 7500, humidity |-> 5500,
      vibration |-> v, current |-> 320, load |-> LoadOf(320)] :
        a \in {1900, 2250}, v \in {180, 300, 410}}

(* In hardware mode only the simulated machine temperature is used. *)
SimMachine == {sim \in SimData : sim.ambient_temp = 2250 /\ sim.vibration = 180}

(***************************************************************************)
(* What the three hardware reads return in one cycle: a value, or NoRead   *)
(* (Python None) when the read_real_* function caught an exception or the  *)
(* device returned nothing.  read_real_current returns both or neither.   *)
(***************************************************************************)
NoRead == -1

HwReads ==
    [amb_temp : {NoRead, 3600}, humidity : {NoRead, 5500},
     vibration : {NoRead, 650}, current : {NoRead, 1100}]

(* Where an exception can leave the try block of read_sensors: nowhere, or *)
(* at the update of one channel, after the updates before it were made:    *)
(* before every update, or between the updates.                            *)
FailPoints == {"none", "temperature", "vibration"}

(* Runs in which every step of a tick can fail (hardware, database and a   *)
(* websocket client together) draw each step's inputs from narrower sets:  *)
(* every read succeeds or the vibration read fails; the cycle completes or *)
(* raises before the vibration update.                                     *)
Narrow == db_faults /\ peers # {}

CycleReads ==
    IF Narrow
    THEN {r \in HwReads : r.amb_temp # NoRead /\ r.humidity # NoRead
                          /\ r.current # NoRead}
    ELSE HwReads

CycleFailPoints == IF Narrow THEN {"none", "vibration"} ELSE FailPoints

SetChannel(sd, c, v, st) == [sd EXCEPT ![c] = [value |-> v, status |-> st]]
SetStatus(sd, c, st) == [sd EXCEPT ![c].status = st]

UpdTemperature(sd, r) ==
    IF r.amb_temp # NoRead THEN SetChannel(sd, "temperature", r.amb_temp, "online")
    ELSE SetStatus(sd, "temperature", "error")

UpdHumidity(sd, r) ==
    IF r.humidity # NoRead THEN SetChannel(sd, "humidity", r.humidity, "online")
    ELSE SetStatus(sd, "humidity", "error")

\* Faulty variant: a failed read puts the initial default in place of the
\* stored value.
UpdVibrationDefaulted(sd, r) ==
    IF r.vibration # NoRead THEN SetChannel(sd, "vibration", r.vibration, "online")
    ELSE SetChannel(sd, "vibration", InitialSensorData["vibration"].value, "error")

UpdVibration(sd, r) ==
    IF r.vibration # NoRead THEN SetChannel(sd, "vibration", r.vibration, "online")
    ELSE SetStatus(sd, "vibration", "error")

UpdCurrent(sd, r) ==
    IF r.current # NoRead
    THEN SetChannel(SetChannel(sd, "current", r.current, "online"),
                    "load", Min(10000, LoadOf(r.current)), "online")
    ELSE SetStatus(SetStatus(sd, "current", "error"), "load", "error")

UpdMachine(sd, sim) ==
    SetChannel(sd, "machine_temperature", sim.machine_temp, "simulated")

AllOffline(sd) == [c \in Channels |-> [sd[c] EXCEPT !.status = "offline"]]

(* The try block of the hardware branch, left at fail_at. *)
HwTry(sd, r, sim, fail_at) ==
    LET s1 == UpdTemperature(sd, r)
        s2 == UpdHumidity(s1, r)
        s3 == UpdVibration(s2, r)
        s4 == UpdCurrent(s3, r)
    IN  CASE fail_at = "temperature" -> sd
          [] fail_at = "humidity"    -> s1
          [] fail_at = "vibration"   -> s2
          [] fail_at = "current"     -> s3
          [] OTHER                   -> UpdMachine(s4, sim)

\* Faulty variant: a cycle that succeeds leaves the counter as it is.
CountReadErrorsNoReset(errors, raised) == IF raised THEN errors + 1 ELSE errors

(* self.read_errors = 0 at the end of the try block, self.read_errors += 1 *)
(* in the except block.                                                    *)
CountReadErrors(errors, raised) == IF raised THEN errors + 1 ELSE 0

(* The except block of the hardware branch: count, then the breaker. *)
HwExcept(sd, errors) ==
    IF errors >= 3 THEN AllOffline(sd) ELSE sd

SimRead(sim) ==
    [temperature         |-> [value |-> sim.ambient_temp, status |-> "simulated"],
     machine_temperature |-> [value |-> sim.machine_temp, status |-> "simulated"],
     vibration           |-> [value |-> sim.vibration,    status |-> "simulated"],
     humidity            |-> [value |-> sim.humidity,     status |-> "simulated"],
     current             |-> [value |-> sim.current,      status |-> "simulated"],
     load                |-> [value |-> sim.load,         status |-> "simulated"]]

(***************************************************************************)
(* Bounds of the runs.                                                     *)
(***************************************************************************)
MaxTicks == 52        \* iterations of the monitor task alone, database healthy
MaxDbTicks == 11      \* iterations when the database can fail
MaxHwTicks == 4       \* iterations in hardware mode
MaxDetTicks == 3      \* iterations of a run that records rule_first
MaxWsTicks == 2       \* iterations while websocket clients come and go
MaxSurviveTicks == 11 \* iterations of a run in which every step can fail

TickBound ==
    IF peers # {} /\ arrival > 0 THEN MaxSurviveTicks
    ELSE IF peers # {} THEN MaxWsTicks
    ELSE IF track THEN MaxDetTicks
    ELSE IF RASPBERRY_PI /\ hardware THEN MaxHwTicks
    ELSE IF db_faults THEN MaxDbTicks
    ELSE MaxTicks

(* start_monitoring up to the first test of its while loop. *)
StartMonitoring ==
    /\ pc = "start"
    /\ running' = TRUE
    /\ pc' = "read"
    /\ UNCHANGED <<sensor_data, read_errors, ticks, events_log, event, ws_i,
                   hist_vars, db_vars, ws_vars, config_vars, stop_vars, obs_vars, score_vars, hub_vars>>

(* Which read of a cycle feeds a channel (machine temperature has none). *)
ReadOf(r, c) ==
    CASE c = "temperature" -> r.amb_temp
      [] c = "humidity"    -> r.humidity
      [] c = "vibration"   -> r.vibration
      [] c \in {"current", "load"} -> r.current
      [] OTHER -> 0

(* History: how many cycles in a row the read of each channel has failed. *)
NextStreak(st, r) ==
    [c \in Channels |-> IF ReadOf(r, c) = NoRead THEN Min(3, st[c] + 1) ELSE 0]

(***************************************************************************)
(* SensorManager.read_sensors: it has no await, so one call is one step.   *)
(***************************************************************************)
read_sensors ==
    /\ pc = "read"
    /\ IF RASPBERRY_PI /\ hardware
       THEN \E r \in CycleReads, sim \in SimMachine, fail_at \in CycleFailPoints :
                /\ read_errors' = CountReadErrors(read_errors, fail_at # "none")
                /\ IF fail_at = "none"
                   THEN /\ sensor_data' = HwTry(sensor_data, r, sim, fail_at)
                        /\ last_ok' = ticks + 1
                   ELSE /\ sensor_data' =
                             HwExcept(HwTry(sensor_data, r, sim, fail_at), read_errors')
                        /\ UNCHANGED last_ok
                /\ streak' = NextStreak(streak, r)
       ELSE \E sim \in SimData :
                /\ sensor_data' = SimRead(sim)
                /\ UNCHANGED <<read_errors, streak, last_ok>>
    /\ ticks' = ticks + 1
    /\ pc' = "log"
    /\ UNCHANGED <<running, events_log, event, ws_i, rule_first, bcast, send_failed,
                   db_vars, ws_vars, config_vars, stop_vars, obs_vars, score_vars, hub_vars>>

(***************************************************************************)
(* log_event up to its first await: the assessment, the event, the event   *)
(* log and the hand-off to db_service.                                     *)
(***************************************************************************)
LoopHours == {6, 14, 22}

LoopML ==
    {[kind |-> "raise", p |-> 0], [kind |-> "error", p |-> 0],
     [kind |-> "ok", p |-> 400], [kind |-> "ok", p |-> 700]}

DbOutcomes ==
    IF db_faults THEN {"ok", "import_error", "save_error", "downtime_error"}
    ELSE {"ok"}

(* The assessments one calculate_downtime_risk call on sd can return. *)
Assessments(sd) ==
    {Assess(sd, h, ml, fault) :
        h \in IF Narrow THEN {22} ELSE LoopHours, ml \in LoopML, fault \in BOOLEAN}

MkEvent(t, a, sd) ==
    [kind |-> "event", timestamp |-> t, risk |-> a.score, status |-> a.status,
     \* history: the branch taken and, on the rule-based branch, the shift
     source |-> a.source,
     shift |-> IF a.source = "rule-based" THEN a.shift ELSE 0,
     ambient_temp |-> sd["temperature"].value,
     machine_temp |-> sd["machine_temperature"].value,
     vibration |-> sd["vibration"].value,
     load |-> sd["load"].value]

\* Faulty variant: the slice keeps the last 50 entries, events_log[-50:].
InsertEventKeepLast(log, t) ==
    LET all == <<t>> \o log
    IN  SubSeq(all, Max(1, Len(all) - 49), Len(all))

(* events_log.insert(0, event); events_log = events_log[:50] *)
InsertEvent(log, t) == SubSeq(<<t>> \o log, 1, Min(50, Len(log) + 1))

\* Faulty variant: a tick also saves when the database call of the tick
\* before it failed.
SaveDueOrRetry(log) == Len(log) % 10 = 0 \/ db.error

(* if len(events_log) % 10 == 0 *)
SaveDue(log) == Len(log) % 10 = 0

(***************************************************************************)
(* The try block of log_event around db_service.  dbo "import_error": the  *)
(* import of db_service raises and neither call is made; "save_error": the *)
(* commit inside save_sensor_reading raises, which that method swallows;   *)
(* "downtime_error": the commit inside save_downtime_event raises, which   *)
(* that method swallows; "ok": the reading is stored with the assessment   *)
(* a2 that save_sensor_reading computes by its own calculate_downtime_risk *)
(* call.                                                                   *)
(***************************************************************************)
SaveToDb(ev, dbo, a2) ==
    IF dbo = "import_error"
    THEN [NoDbCall EXCEPT !.error = TRUE]
    ELSE [saved    |-> TRUE,
          downtime |-> ev.status = "CRITICAL",
          error    |-> \/ dbo = "save_error"
                       \/ dbo = "downtime_error" /\ ev.status = "CRITICAL",
          stored   |-> IF dbo \in {"ok", "downtime_error"}
                       THEN [kind |-> "reading", tick |-> ev.timestamp,
                             risk_score |-> a2.score, status |-> a2.status]
                       ELSE None]

\* Faulty variant: a failed database call is not caught and ends the task.
AfterDbCallUncaught(outcome) ==
    IF outcome.error THEN "crashed" ELSE "event_send"

(* except Exception as e: logger.warning(...): whatever the database calls *)
(* did, log_event goes on to its fan-out.                                  *)
AfterDbCall(outcome) == "event_send"

log_event ==
    /\ pc = "log"
    /\ \E a \in Assessments(sensor_data) :
        LET ev  == MkEvent(ticks, a, sensor_data)
            log == InsertEvent(events_log, ticks)
        IN  /\ event' = ev
            /\ events_log' = log
            /\ IF SaveDue(log)
               THEN \E dbo \in DbOutcomes, a2 \in Assessments(sensor_data) :
                        db' = SaveToDb(ev, dbo, a2)
               ELSE db' = NoDbCall
            /\ save_calls' = IF db'.saved THEN save_calls + 1 ELSE save_calls
            /\ rule_first' =
                    IF track /\ rule_first = None /\ a.source = "rule-based"
                    THEN [kind |-> "risk", tick |-> ticks, reading |-> sensor_data,
                          shift |-> a.shift, score |-> a.score, status |-> a.status]
                    ELSE rule_first
    /\ bcast' = [kind |-> "bcast", list |-> connected_websockets,
                 closed |-> {w \in Sockets : ws_state[w] = "closed"}]
    /\ send_failed' = {}
    /\ pc' = AfterDbCall(db')
    /\ ws_i' = 0
    /\ UNCHANGED <<sensor_data, read_errors, running, ticks, streak, last_ok, ws_vars,
                   config_vars, stop_vars, obs_vars, score_vars, hub_vars>>

(***************************************************************************)
(* The two for-loops over connected_websockets.  A Python list iterator    *)
(* keeps an index into the live list: ws_i is that index, and a removal or *)
(* an append made while the loop runs moves what the index meets next.     *)
(***************************************************************************)
(* x in seq *)
InSeq(seq, x) == \E k \in 1..Len(seq) : seq[k] = x

RemoveFirst(seq, x) ==
    IF \E k \in 1..Len(seq) : seq[k] = x
    THEN LET k == CHOOSE j \in 1..Len(seq) :
                      seq[j] = x /\ \A m \in 1..(j - 1) : seq[m] # x
         IN  SubSeq(seq, 1, k - 1) \o SubSeq(seq, k + 1, Len(seq))
    ELSE seq

Deliver(rcv, w, msg) == [rcv EXCEPT ![w] = Append(@, msg)]

(* log_event's except: remove the websocket whose send failed. *)
EventSendFailed(ws, w) == RemoveFirst(ws, w)

\* Faulty variant: the send loops catch Exception only, so the
\* CancelledError leaves the loop and ends the task inside the tick.
AfterSendCancelledEscapes(at) == "cancelled"

(* A bare except also catches the CancelledError that task.cancel() throws *)
(* into an awaited send: the loop goes on from where it stands.            *)
AfterSendCancelled(at) == at

(* log_event: send "new_event" to the websocket the loop stands at. *)
send_new_event ==
    /\ pc = "event_send"
    /\ IF ws_i < Len(connected_websockets)
       THEN LET w == connected_websockets[ws_i + 1]
            IN  /\ IF cancel
                   THEN /\ connected_websockets' =
                                EventSendFailed(connected_websockets, w)
                        /\ pc' = AfterSendCancelled(pc)
                        /\ send_failed' = send_failed \cup {w}
                        /\ UNCHANGED received
                   ELSE IF ws_state[w] = "open"
                   THEN /\ received' = Deliver(received, w,
                                               <<"new_event", event.timestamp>>)
                        /\ UNCHANGED <<pc, connected_websockets, send_failed>>
                   ELSE /\ connected_websockets' =
                                EventSendFailed(connected_websockets, w)
                        /\ send_failed' = send_failed \cup {w}
                        /\ UNCHANGED <<pc, received>>
                /\ cancel' = FALSE
                /\ ws_i' = ws_i + 1
                /\ UNCHANGED <<event, tick_done>>
       ELSE /\ pc' = "update_send"
            /\ ws_i' = 0
            /\ event' = None        \* log_event returns: its locals are gone
            /\ tick_done' = [tick_done EXCEPT !.event = ticks]
            /\ UNCHANGED <<connected_websockets, received, cancel, send_failed>>
    /\ UNCHANGED <<sensor_data, read_errors, running, ticks, events_log, ws_state,
                   streak, rule_first, bcast, last_ok, db_vars, config_vars,
                   stop_requested, obs_vars, score_vars, hub_vars>>

(* start_monitoring: send "sensor_update"; a failed send is passed over. *)
send_sensor_update ==
    /\ pc = "update_send"
    /\ IF ws_i < Len(connected_websockets)
       THEN LET w == connected_websockets[ws_i + 1]
            IN  /\ received' = IF ~cancel /\ ws_state[w] = "open"
                               THEN Deliver(received, w, <<"sensor_update", ticks>>)
                               ELSE received
                /\ send_failed' = IF cancel \/ ws_state[w] # "open"
                                  THEN send_failed \cup {w} ELSE send_failed
                /\ pc' = IF cancel THEN AfterSendCancelled(pc) ELSE pc
                /\ cancel' = FALSE
                /\ ws_i' = ws_i + 1
                /\ UNCHANGED tick_done
       ELSE /\ pc' = "sleep"
            /\ ws_i' = 0
            /\ tick_done' = [tick_done EXCEPT !.update = ticks]
            /\ UNCHANGED <<received, cancel, send_failed>>
    /\ UNCHANGED <<sensor_data, read_errors, running, ticks, events_log, event,
                   connected_websockets, ws_state, streak, rule_first, bcast, last_ok,
                   db_vars, config_vars, stop_requested, obs_vars, score_vars, hub_vars>>

\* Faulty variant: the loop is `while True`, the running flag is not tested.
AfterSleepForever(run, cancelled) ==
    IF cancelled THEN "cancelled" ELSE "read"

(* await asyncio.sleep(...) and the while test: a pending CancelledError   *)
(* leaves start_monitoring (the sleep is not inside a try); otherwise the  *)
(* loop goes on while self.running.                                        *)
AfterSleep(run, cancelled) ==
    IF cancelled THEN "cancelled"
    ELSE IF run THEN "read"
    ELSE "stopped"

sleep ==
    /\ pc = "sleep"
    /\ cancel \/ ~running \/ ticks < TickBound
    /\ pc' = AfterSleep(running, cancel)
    /\ cancel' = FALSE
    /\ UNCHANGED <<sensor_data, read_errors, running, ticks, events_log, event,
                   ws_i, hist_vars, db_vars, ws_vars, config_vars, stop_requested,
                   tick_done, obs_vars, score_vars, hub_vars>>

(***************************************************************************)
(* lifespan, after its yield: sensor_manager.running = False; task.cancel()*)
(* It runs while the monitor task is suspended: in its sleep, or in the    *)
(* send_text of one of its loops.                                          *)
(***************************************************************************)
SendInFlight ==
    pc \in {"event_send", "update_send"} /\ ws_i < Len(connected_websockets)

Shutdown ==
    /\ ~stop_requested
    /\ pc = "sleep" \/ SendInFlight
    /\ running' = FALSE
    /\ cancel' = TRUE
    /\ stop_requested' = TRUE
    /\ UNCHANGED <<sensor_data, read_errors, pc, ticks, events_log, event, ws_i,
                   hist_vars, db_vars, ws_vars, config_vars, tick_done, obs_vars, score_vars,
                   hub_vars>>

NextLoop ==
    \/ StartMonitoring
    \/ read_sensors
    \/ log_event
    \/ send_new_event
    \/ send_sensor_update
    \/ sleep

(***************************************************************************)
(* websocket_endpoint, the handler task of one client.  Handlers run only  *)
(* while the monitor task is suspended: in its sleep, or in a send of one  *)
(* of its loops.                                                           *)
(***************************************************************************)
(* The clients of a long run arrive late in it. *)
FirstArrival == arrival

MonitorSuspended ==
    \/ pc \in {"sleep", "stopped", "cancelled"}
    \/ pc \in {"event_send", "update_send"} /\ ws_i > 0

(* accept, append to connected_websockets, send the initial sensor_update *)
ws_connect(w) ==
    /\ MonitorSuspended
    /\ ticks >= FirstArrival
    /\ ws_state[w] = "new"
    /\ ws_state' = [ws_state EXCEPT ![w] = "open"]
    /\ connected_websockets' = Append(connected_websockets, w)
    /\ received' = Deliver(received, w, <<"sensor_update", 0>>)
    /\ UNCHANGED <<sensor_data, read_errors, running, pc, ticks, events_log, event,
                   ws_i, hist_vars, db_vars, config_vars, stop_vars, obs_vars, score_vars, hub_vars>>

(* The client goes away: from now on every send to it raises. *)
ws_peer_close(w) ==
    /\ MonitorSuspended
    /\ ws_state[w] = "open"
    /\ ws_state' = [ws_state EXCEPT ![w] = "closed"]
    /\ UNCHANGED <<sensor_data, read_errors, running, pc, ticks, events_log, event,
                   ws_i, hist_vars, db_vars, connected_websockets, received,
                   config_vars, stop_vars, obs_vars, score_vars, hub_vars>>

(* except WebSocketDisconnect: remove the websocket if it is still listed *)
ws_disconnect(w) ==
    /\ MonitorSuspended
    /\ ws_state[w] = "closed"
    /\ \E k \in 1..Len(connected_websockets) : connected_websockets[k] = w
    /\ connected_websockets' = RemoveFirst(connected_websockets, w)
    /\ UNCHANGED <<sensor_data, read_errors, running, pc, ticks, events_log, event,
                   ws_i, hist_vars, db_vars, ws_state, received,
                   config_vars, stop_vars, obs_vars, score_vars, hub_vars>>

Connect == \E w \in peers : ws_connect(w)
PeerClose == \E w \in peers : ws_peer_close(w)
Disconnect == \E w \in peers : ws_disconnect(w)

(***************************************************************************)
(* The monitor task running alone in simulation mode: RASPBERRY_PI false,  *)
(* or forced true without hardware.                                        *)
(***************************************************************************)
InitLoop ==
    /\ InitProgram
    /\ sensor_data = InitialSensorData
    /\ RASPBERRY_PI \in BOOLEAN
    /\ hardware = FALSE
    /\ peers = {}
    /\ db_faults \in BOOLEAN
    /\ track = FALSE
    /\ arrival = 0

SpecLoop == InitLoop /\ [][NextLoop]_vars

(* The monitor task running alone on the hardware. *)
InitHW ==
    /\ InitProgram
    /\ sensor_data = InitialSensorData
    /\ RASPBERRY_PI = TRUE
    /\ hardware = TRUE
    /\ peers = {}
    /\ db_faults = FALSE
    /\ track = FALSE
    /\ arrival = 0

SpecHW == InitHW /\ [][NextLoop]_vars

(* Simulation-mode runs that record the first rule-based assessment. *)
InitDet ==
    /\ InitProgram
    /\ sensor_data = InitialSensorData
    /\ RASPBERRY_PI \in BOOLEAN
    /\ hardware = FALSE
    /\ peers = {}
    /\ db_faults = FALSE
    /\ track = TRUE
    /\ arrival = 0

SpecDet == InitDet /\ [][NextLoop]_vars

(* The monitor task in simulation mode with websocket clients. *)
Init ==
    /\ InitProgram
    /\ sensor_data = InitialSensorData
    /\ RASPBERRY_PI = FALSE
    /\ hardware = FALSE
    /\ peers = Sockets
    /\ db_faults = FALSE
    /\ track = FALSE
    /\ arrival = 0

Next ==
    \/ StartMonitoring
    \/ read_sensors
    \/ log_event
    \/ send_new_event
    \/ send_sensor_update
    \/ sleep
    \/ Connect
    \/ PeerClose
    \/ Disconnect

Spec == Init /\ [][Next]_vars

(***************************************************************************)
(* The monitor task on the hardware with one websocket client and a        *)
(* database that can fail: every step of a tick can fail.  The task is     *)
(* scheduled whenever it can run (the event loop resumes a ready task).    *)
(***************************************************************************)
InitSurvive ==
    /\ InitProgram
    /\ sensor_data = InitialSensorData
    /\ RASPBERRY_PI = TRUE
    /\ hardware = TRUE
    /\ peers = {"w1"}
    /\ db_faults = TRUE
    /\ track = FALSE
    /\ arrival = MaxSurviveTicks - 2

NextSurvive ==
    \/ StartMonitoring
    \/ read_sensors
    \/ log_event
    \/ send_new_event
    \/ send_sensor_update
    \/ sleep
    \/ Connect
    \/ PeerClose
    \/ Disconnect

SpecSurvive == InitSurvive /\ [][NextSurvive]_vars /\ WF_vars(NextLoop)

(***************************************************************************)
(* The monitor task in simulation mode with one websocket client that      *)
(* arrives late in the run, and the shutdown half of lifespan.  The        *)
(* monitor task and the handlers run whenever they are ready; when the     *)
(* client connects and closes and when shutdown is requested is up to the  *)
(* environment.                                                            *)
(***************************************************************************)
InitStop ==
    /\ InitProgram
    /\ sensor_data = InitialSensorData
    /\ RASPBERRY_PI = FALSE
    /\ hardware = FALSE
    /\ peers = {"w1"}
    /\ db_faults = FALSE
    /\ track = FALSE
    /\ arrival = MaxSurviveTicks - 2

NextStop ==
    \/ StartMonitoring
    \/ read_sensors
    \/ log_event
    \/ send_new_event
    \/ send_sensor_update
    \/ sleep
    \/ Connect
    \/ PeerClose
    \/ Disconnect
    \/ Shutdown

SpecStop ==
    /\ InitStop
    /\ [][NextStop]_vars
    /\ WF_vars(NextLoop)
    /\ WF_vars(Disconnect)

(***************************************************************************)
(* read_sensors taken one assignment at a time, with a get_sensors request *)
(* as the observer of sensor_data.  The assignments of one call, in the    *)
(* order of the source: a channel whose hardware read returned None gets   *)
(* its status only.                                                        *)
(***************************************************************************)
Both(c) == << <<c, "value">>, <<c, "status">> >>

SimWrites ==
    Both("temperature") \o Both("machine_temperature") \o Both("humidity")
    \o Both("vibration") \o Both("current") \o Both("load")

HwWrites(r) ==
    (IF r.amb_temp # NoRead THEN Both("temperature") ELSE << <<"temperature", "status">> >>)
    \o (IF r.humidity # NoRead THEN Both("humidity") ELSE << <<"humidity", "status">> >>)
    \o (IF r.vibration # NoRead THEN Both("vibration") ELSE << <<"vibration", "status">> >>)
    \o (IF r.current # NoRead THEN Both("current") \o Both("load")
        ELSE << <<"current", "status">>, <<"load", "status">> >>)
    \o Both("machine_temperature")

(* sensor_data[c][f] = ... *)
ApplyWrite(sd, new, w) == [sd EXCEPT ![w[1]][w[2]] = new[w[1]][w[2]]]

\* Faulty variant: the acquisition awaits between two channels (an awaited
\* read), so other tasks run while the later channels are still unwritten.
ReadSuspendsBetweenChannels(todo) == todo # <<>> /\ Head(todo)[2] = "value"

(* read_sensors is a coroutine without an await: once called it runs to    *)
(* its return, and no other task of the event loop runs in between.        *)
ReadSuspendsAt(todo) == FALSE

(* The points at which the event loop can run another task. *)
ObserverCanRun ==
    \/ MonitorSuspended
    \/ pc = "write" /\ ReadSuspendsAt(acq.todo)

(* read_sensors up to its first assignment: the reads, or the simulation   *)
(* draw; the try block is taken on the path that does not raise.           *)
read_sensors_begin ==
    /\ pc = "read"
    /\ IF RASPBERRY_PI /\ hardware
       THEN \E r \in HwReads, sim \in SimMachine :
                /\ acq' = [kind |-> "acq", todo |-> HwWrites(r),
                           new |-> HwTry(sensor_data, r, sim, "none")]
                /\ streak' = NextStreak(streak, r)
                /\ last_ok' = ticks + 1
       ELSE \E sim \in SimData :
                /\ acq' = [kind |-> "acq", todo |-> SimWrites, new |-> SimRead(sim)]
                /\ UNCHANGED <<streak, last_ok>>
    /\ ticks' = ticks + 1
    /\ pc' = "write"
    /\ UNCHANGED <<sensor_data, read_errors, running, events_log, event, ws_i,
                   rule_first, bcast, send_failed, db_vars, ws_vars, config_vars,
                   stop_vars, stamp, seen, score_vars, hub_vars>>

(* The next assignment of the call; after the last one read_sensors        *)
(* returns (self.read_errors = 0 on the hardware path).                    *)
read_sensors_write ==
    /\ pc = "write"
    /\ LET w == Head(acq.todo)
       IN  /\ sensor_data' = ApplyWrite(sensor_data, acq.new, w)
           /\ stamp' = [stamp EXCEPT ![w[1]][w[2]] = ticks]
    /\ IF Len(acq.todo) = 1
       THEN /\ acq' = None
            /\ pc' = "log"
            /\ read_errors' = 0
       ELSE /\ acq' = [acq EXCEPT !.todo = Tail(@)]
            /\ UNCHANGED <<pc, read_errors>>
    /\ UNCHANGED <<running, ticks, events_log, event, ws_i, hist_vars, db_vars,
                   ws_vars, config_vars, stop_vars, seen, score_vars, hub_vars>>

(* GET /api/sensors: return {**sensor_data, ...} *)
get_sensors ==
    /\ ObserverCanRun
    /\ seen' = [kind |-> "seen", sensor_data |-> sensor_data, stamp |-> stamp]
    /\ seen' # seen
    /\ UNCHANGED <<sensor_data, read_errors, running, pc, ticks, events_log, event,
                   ws_i, hist_vars, db_vars, ws_vars, config_vars, stop_vars, acq,
                   stamp, score_vars, hub_vars>>

(* Runs in either mode with one websocket client and get_sensors requests. *)
InitObs ==
    /\ InitProgram
    /\ sensor_data = InitialSensorData
    /\ RASPBERRY_PI \in BOOLEAN
    /\ hardware = RASPBERRY_PI
    /\ peers = {"w1"}
    /\ db_faults = FALSE
    /\ track = FALSE
    /\ arrival = 0

NextObs ==
    \/ StartMonitoring
    \/ read_sensors_begin
    \/ read_sensors_write
    \/ log_event
    \/ send_new_event
    \/ send_sensor_update
    \/ sleep
    \/ Connect
    \/ PeerClose
    \/ Disconnect
    \/ get_sensors

SpecObs == InitObs /\ [][NextObs]_vars

(***************************************************************************)
(* app/core/ws_manager.py: ConnectionManager, with the websocket_monitor   *)
(* handlers (app/routes/ws_routes.py) that connect and disconnect and the  *)
(* requests that call broadcast (app/routes/sensor.py).  Every task is one *)
(* asyncio task of the same event loop: a step runs from one await that    *)
(* suspends to the next.                                                   *)
(*                                                                         *)
(* self._lock is an asyncio.Lock: acquire returns at once when the lock is *)
(* free and nobody is queued, otherwise the task queues; release wakes the *)
(* task queued first, and a task arriving before the woken one has run     *)
(* queues behind it.                                                       *)
(***************************************************************************)
LockFree == lock = "free" /\ waiters = <<>>

\* Faulty variant: the lock wakes the task queued last.
LockGrantNewest(q) == q[Len(q)]

(* The task that release wakes. *)
LockGrant(q) == Head(q)

RECURSIVE RemoveAll(_, _)
(* for ws in to_remove: self.active_connections.remove(ws), ValueError passed *)
RemoveAll(seq, gone) ==
    IF gone = <<>> THEN seq ELSE RemoveAll(RemoveFirst(seq, Head(gone)), Tail(gone))

hub_loop_vars == <<hub_i, to_remove>>

\* Faulty variant: disconnect removes without testing membership.
InActiveAssumed(conns, w) == TRUE

(* if websocket in self.active_connections *)
InActive(conns, w) == InSeq(conns, w)

(***************************************************************************)
(* The body of ConnectionManager.disconnect under the lock.  list.remove   *)
(* raises ValueError for an element that is not in the list; "how" tells   *)
(* how the call ended: "gone" (removed), "absent" (not listed, nothing     *)
(* done) or "raised".                                                      *)
(***************************************************************************)
DisconnectBody(conns, w) ==
    IF ~InActive(conns, w) THEN [list |-> conns, how |-> "absent"]
    ELSE IF InSeq(conns, w) THEN [list |-> RemoveFirst(conns, w), how |-> "gone"]
    ELSE [list |-> conns, how |-> "raised"]

(* ConnectionManager.connect: accept, then append under the lock. *)
connect(w) ==
    /\ hpc[w] = "new"
    /\ IF LockFree
       THEN /\ active_connections' = Append(active_connections, w)
            /\ hpc' = [hpc EXCEPT ![w] = "listening"]
            /\ UNCHANGED waiters
       ELSE /\ waiters' = Append(waiters, w)
            /\ hpc' = [hpc EXCEPT ![w] = "wait_connect"]
            /\ UNCHANGED active_connections
    /\ UNCHANGED <<lock, bpc, hub_loop_vars, hub_ws, hub_recv, called, queued,
                   loop_vars, score_vars>>

(* The client goes away: every later send to it raises, and receive_text   *)
(* of its handler raises WebSocketDisconnect.                              *)
hub_peer_close(w) ==
    /\ hpc[w] # "new"
    /\ hub_ws[w] = "open"
    /\ hub_ws' = [hub_ws EXCEPT ![w] = "closed"]
    /\ UNCHANGED <<active_connections, lock, waiters, bpc, hpc, hub_loop_vars,
                   hub_recv, called, queued, loop_vars, score_vars>>

(* The client stops reading: a send to it never completes. *)
hub_peer_stall(w) ==
    /\ hpc[w] # "new"
    /\ hub_ws[w] = "open"
    /\ hub_ws' = [hub_ws EXCEPT ![w] = "stalled"]
    /\ UNCHANGED <<active_connections, lock, waiters, bpc, hpc, hub_loop_vars,
                   hub_recv, called, queued, loop_vars, score_vars>>

(* websocket_monitor's except WebSocketDisconnect: ConnectionManager       *)
(* .disconnect removes the websocket under the lock.                       *)
disconnect(w) ==
    /\ hpc[w] = "listening"
    /\ hub_ws[w] = "closed"
    /\ IF LockFree
       THEN /\ active_connections' = DisconnectBody(active_connections, w).list
            /\ hpc' = [hpc EXCEPT ![w] = DisconnectBody(active_connections, w).how]
            /\ UNCHANGED waiters
       ELSE /\ waiters' = Append(waiters, w)
            /\ hpc' = [hpc EXCEPT ![w] = "wait_disconnect"]
            /\ UNCHANGED active_connections
    /\ UNCHANGED <<lock, bpc, hub_loop_vars, hub_ws, hub_recv, called, queued,
                   loop_vars, score_vars>>

(* ConnectionManager.broadcast up to its first suspension: the emptiness   *)
(* test, json.dumps and the acquire of the lock.                           *)
broadcast(b) ==
    /\ bpc[b] = "idle"
    /\ called' = Append(called, b)
    /\ IF active_connections = <<>>
       THEN /\ bpc' = [bpc EXCEPT ![b] = "done"]
            /\ UNCHANGED <<lock, waiters, hub_loop_vars>>
       ELSE IF LockFree
       THEN /\ lock' = b
            /\ bpc' = [bpc EXCEPT ![b] = "loop"]
            /\ hub_i' = 0
            /\ to_remove' = <<>>
            /\ UNCHANGED waiters
       ELSE /\ waiters' = Append(waiters, b)
            /\ bpc' = [bpc EXCEPT ![b] = "wait"]
            /\ UNCHANGED <<lock, hub_loop_vars>>
    /\ queued' = IF bpc'[b] = "wait" THEN queued \cup {b} ELSE queued
    /\ UNCHANGED <<active_connections, hpc, hub_ws, hub_recv, loop_vars, score_vars>>

(* The lock is free and tasks are queued: the one it wakes runs.  A        *)
(* handler appends or removes and releases in the same step; a broadcast   *)
(* enters its loop holding the lock.                                       *)
lock_granted(t) ==
    /\ lock = "free"
    /\ waiters # <<>>
    /\ t = LockGrant(waiters)
    /\ waiters' = RemoveFirst(waiters, t)
    /\ IF t \in Broadcasts
       THEN /\ lock' = t
            /\ bpc' = [bpc EXCEPT ![t] = "loop"]
            /\ hub_i' = 0
            /\ to_remove' = <<>>
            /\ UNCHANGED <<active_connections, hpc>>
       ELSE /\ active_connections' =
                    IF hpc[t] = "wait_connect" THEN Append(active_connections, t)
                    ELSE DisconnectBody(active_connections, t).list
            /\ hpc' = [hpc EXCEPT ![t] =
                            IF hpc[t] = "wait_connect" THEN "listening"
                            ELSE DisconnectBody(active_connections, t).how]
            /\ UNCHANGED <<lock, bpc, hub_loop_vars>>
    /\ UNCHANGED <<hub_ws, hub_recv, called, queued, loop_vars, score_vars>>

(* broadcast's for-loop, holding the lock: start the next send_text, or,   *)
(* past the last websocket, remove the failed ones and release the lock.   *)
broadcast_loop(b) ==
    /\ bpc[b] = "loop"
    /\ IF hub_i < Len(active_connections)
       THEN /\ bpc' = [bpc EXCEPT ![b] = "send"]
            /\ UNCHANGED <<active_connections, lock, hub_loop_vars>>
       ELSE /\ active_connections' = RemoveAll(active_connections, to_remove)
            /\ lock' = "free"
            /\ bpc' = [bpc EXCEPT ![b] = "done"]
            /\ hub_i' = 0
            /\ to_remove' = <<>>
    /\ UNCHANGED <<waiters, hpc, hub_ws, hub_recv, called, queued, loop_vars, score_vars>>

(* await ws.send_text(text) completes: delivered, or it raised and the     *)
(* websocket is scheduled for removal.  A send to a stalled client does    *)
(* not complete.                                                           *)
send_text_done(b) ==
    /\ bpc[b] = "send"
    /\ LET ws == active_connections[hub_i + 1]
       IN  /\ hub_ws[ws] # "stalled"
           /\ IF hub_ws[ws] = "open"
              THEN /\ hub_recv' = [hub_recv EXCEPT ![ws] = Append(@, b)]
                   /\ UNCHANGED to_remove
              ELSE /\ to_remove' = Append(to_remove, ws)
                   /\ UNCHANGED hub_recv
    /\ hub_i' = hub_i + 1
    /\ bpc' = [bpc EXCEPT ![b] = "loop"]
    /\ UNCHANGED <<active_connections, lock, waiters, hpc, hub_ws, called, queued,
                   loop_vars, score_vars>>

HubConnect == \E w \in Sockets : connect(w)
HubPeerClose == \E w \in Sockets : hub_peer_close(w)
HubPeerStall == \E w \in Sockets : hub_peer_stall(w)
HubDisconnect == \E w \in Sockets : disconnect(w)
HubBroadcast == \E b \in Broadcasts : broadcast(b)
HubLockGranted == \E t \in Broadcasts \cup Sockets : lock_granted(t)
HubBroadcastLoop == \E b \in Broadcasts : broadcast_loop(b)
HubSendDone == \E b \in Broadcasts : send_text_done(b)

InitHub ==
    /\ InitProgram
    /\ sensor_data = InitialSensorData
    /\ RASPBERRY_PI = FALSE
    /\ hardware = FALSE
    /\ peers = {}
    /\ db_faults = FALSE
    /\ track = FALSE
    /\ arrival = 0

NextHub ==
    \/ HubConnect
    \/ HubPeerClose
    \/ HubPeerStall
    \/ HubDisconnect
    \/ HubBroadcast
    \/ HubLockGranted
    \/ HubBroadcastLoop
    \/ HubSendDone

(* The event loop runs every task that is ready: a woken waiter, a         *)
(* broadcast between two sends, a send whose peer answers, a handler whose *)
(* receive raised.  When clients arrive, leave or stall and when requests  *)
(* call broadcast is up to the environment.                                *)
SpecHub ==
    /\ InitHub
    /\ [][NextHub]_vars
    /\ WF_vars(HubLockGranted)
    /\ WF_vars(HubBroadcastLoop)
    /\ WF_vars(HubSendDone)
    /\ WF_vars(HubDisconnect)

(***************************************************************************)
(* Properties                                                              *)
(***************************************************************************)

(* C1: whatever the sensor values, the shift and the model call's outcome, *)
(* the score calculate_downtime_risk returns lies in [0.0, 1.0], also when *)
(* the calculation itself raises internally.                               *)
C1_ScoreInUnitInterval ==
    risk # None => (0 <= risk.score /\ risk.score <= 1000)

\* the rule-based sum exceeds 1.0 and the returned score is 1.0
C1_Witness ==
    /\ risk # None
    /\ risk.source = "rule-based"
    /\ rule_based_risk(sensor_data, risk.shift) > 1000
    /\ risk.score = 1000

(* C2: a score in [0, 0.4) is classified OK, a score in [0.4, 0.7) WARNING *)
(* and a score in [0.7, 1.0] CRITICAL.                                     *)
C2_ClassificationThresholds ==
    risk # None =>
        /\ (0 <= risk.score /\ risk.score < 400) => risk.status = "OK"
        /\ (400 <= risk.score /\ risk.score < 700) => risk.status = "WARNING"
        /\ (700 <= risk.score /\ risk.score <= 1000) => risk.status = "CRITICAL"

\* a score of exactly 0.4 is classified WARNING
C2_Witness ==
    /\ risk # None
    /\ risk.score = 400
    /\ risk.status = "WARNING"

(* C3: for every tick number T, save_sensor_reading is called on tick T    *)
(* exactly when T is a multiple of 10 (database calls that do not fail).   *)
C3_SaveEveryTenthTick ==
    (~db_faults /\ pc = "event_send") => (db.saved <=> ticks % 10 = 0)

(* C4: when the list holds a websocket whose peer has closed and a healthy *)
(* one, in either order, the new_event fan-out removes the closed one and  *)
(* the healthy one receives the tick's message.                            *)
C4_ClosedRemovedHealthyServed ==
    (pc = "update_send" /\ ws_i = 0 /\ bcast # None) =>
        \A c \in Sockets, h \in Sockets :
            ( /\ c # h
              /\ InSeq(bcast.list, c) /\ InSeq(bcast.list, h)
              /\ c \in bcast.closed
              /\ ws_state[h] = "open" )
            => /\ ~InSeq(connected_websockets, c)
               /\ InSeq(received[h], <<"new_event", ticks>>)

(* C5: a channel whose status is offline adds no penalty to the rule-based *)
(* score: the score is the clamped sum over the channels not offline.      *)
LivePenalty(sd, c) ==
    IF sd[c].status = "offline" THEN 0 ELSE ChannelPenalty(c, sd[c].value)

C5_OfflineChannelNoPenalty ==
    (pc = "event_send" /\ event.source = "rule-based") =>
        event.risk = ClampRisk(LivePenalty(sensor_data, "temperature")
                               + LivePenalty(sensor_data, "machine_temperature")
                               + LivePenalty(sensor_data, "humidity")
                               + LivePenalty(sensor_data, "vibration")
                               + LivePenalty(sensor_data, "current")
                               + ShiftPenalty(event.shift))

(* C6: once one channel's hardware read has failed on three consecutive    *)
(* cycles that channel is offline, and the channels whose reads succeed    *)
(* keep reporting.                                                         *)
C6_ThirdFailureTakesChannelOffline ==
    \A c \in Channels :
        streak[c] >= 3 =>
            /\ sensor_data[c].status = "offline"
            /\ \A d \in Channels \ {c} :
                    streak[d] = 0 => sensor_data[d].status \in {"online", "simulated"}

(* C7: when the predictor fails (raises or cannot produce a prediction),   *)
(* the score is the rule-based one and never a value from the failed call. *)
C7_PredictorFailureFallsBack ==
    (risk # None /\ risk.ml \in {"raise", "error"} /\ ~risk.fault) =>
        /\ risk.source = "rule-based"
        /\ risk.score = ClampRisk(rule_based_risk(sensor_data, risk.shift))

(* C8: Scenario A - machine 95.0, vibration 6.0, current 9.0, humidity     *)
(* 55.0, ambient 23.0, night shift, rule-based path: score >= 0.7 and      *)
(* status CRITICAL.                                                        *)
ScenarioA ==
    /\ sensor_data["temperature"].value = 2300
    /\ sensor_data["machine_temperature"].value = 9500
    /\ sensor_data["vibration"].value = 600
    /\ sensor_data["humidity"].value = 5500
    /\ sensor_data["current"].value = 900

C8_ScenarioACritical ==
    (risk # None /\ risk.source = "rule-based" /\ ScenarioA /\ risk.shift = 3) =>
        (risk.score >= 700 /\ risk.status = "CRITICAL")

\* 0.4 (machine) + 0.25 (vibration) + 0.15 (current) + 0.08 (night) = 0.88
C8_Witness ==
    /\ risk # None /\ risk.source = "rule-based" /\ ScenarioA /\ risk.shift = 3
    /\ risk.score = 880
    /\ risk.status = "CRITICAL"

(* C9: Scenario B - machine 75.0, vibration 1.5, current 3.5, humidity     *)
(* 55.0, ambient 23.0, day shift, rule-based path: score < 0.4 and status  *)
(* OK.                                                                     *)
ScenarioB ==
    /\ sensor_data["temperature"].value = 2300
    /\ sensor_data["machine_temperature"].value = 7500
    /\ sensor_data["vibration"].value = 150
    /\ sensor_data["humidity"].value = 5500
    /\ sensor_data["current"].value = 350

C9_ScenarioBOk ==
    (risk # None /\ risk.source = "rule-based" /\ ScenarioB /\ risk.shift = 1) =>
        (risk.score < 400 /\ risk.status = "OK")

C9_Witness ==
    /\ risk # None /\ risk.source = "rule-based" /\ ScenarioB /\ risk.shift = 1
    /\ risk.score = 0
    /\ risk.status = "OK"

C11_LoopSurvivesFailures ==
    /\ [](pc \notin {"crashed", "stopped"} /\ (pc # "start" => running))
    /\ <>(pc = "sleep" /\ ticks = TickBound)

\* tick 11 has started after tick 10's database call failed and a closed
\* websocket failed tick 10's fan-out; the whole read cycle of tick 11 failed
C11_Witness ==
    /\ pc = "log" /\ ticks = 11 /\ running
    /\ db.error
    /\ \E w \in bcast.closed : InSeq(bcast.list, w)
    /\ read_errors >= 1

(* C12: a subscriber whose send never completes blocks neither the others  *)
(* nor the caller: every broadcast call that has started returns, and      *)
(* every listed subscriber that stays open receives its message.           *)
C12_StalledSubscriberBlocksNobody ==
    /\ \A b \in Broadcasts :
            (bpc[b] \in {"wait", "loop", "send"}) ~> (bpc[b] = "done")
    /\ \A b \in Broadcasts, w \in Sockets :
            (bpc[b] = "send" /\ InSeq(active_connections, w) /\ hub_ws[w] = "open")
            ~> (hub_ws[w] # "open" \/ InSeq(hub_recv[w], b))

(* C13: while a send to a subscriber is in flight the lock is free, and no *)
(* connect or disconnect is waiting for the lock.                          *)
C13_LockFreeDuringSend ==
    \A b \in Broadcasts :
        bpc[b] = "send" =>
            /\ lock = "free"
            /\ \A w \in Sockets : hpc[w] \notin {"wait_connect", "wait_disconnect"}

(* C14: a subscriber that receives the messages of two broadcast calls     *)
(* receives them in the order the calls were made, also when the calls     *)
(* come from concurrent callers.                                           *)
CallIndex(b) == CHOOSE k \in 1..Len(called) : called[k] = b

C14_PerSubscriberOrder ==
    \A w \in Sockets :
        \A i \in 1..Len(hub_recv[w]), j \in 1..Len(hub_recv[w]) :
            i < j => CallIndex(hub_recv[w][i]) < CallIndex(hub_recv[w][j])

\* a subscriber has received three broadcasts, two of which had queued on
\* the lock while an earlier call was sending
C14_Witness ==
    \E w \in Sockets :
        /\ Len(hub_recv[w]) = 3
        /\ hub_recv[w][2] \in queued
        /\ hub_recv[w][3] \in queued

(* C15: on every tick whose assessment is CRITICAL, and on no other tick,  *)
(* log_event hands one downtime event to save_downtime_event, whether or   *)
(* not the tick is one on which the reading is saved.                      *)
C15_DowntimeEventPerCriticalTick ==
    (~db_faults /\ pc = "event_send") =>
        (db.downtime <=> event.status = "CRITICAL")

(* C16: within a tick the event is scored on the reading acquired in that  *)
(* tick, and the broadcast to the subscribers comes before the tick's      *)
(* persistence calls: when the fan-out is about to start, db_service has   *)
(* not been called in this tick.                                           *)
C16_BroadcastBeforePersistence ==
    (pc = "event_send" /\ ws_i = 0 /\ bcast.list # <<>>) =>
        /\ event.ambient_temp = sensor_data["temperature"].value
        /\ event.machine_temp = sensor_data["machine_temperature"].value
        /\ event.vibration = sensor_data["vibration"].value
        /\ ~db.saved

(* C17: the monitor loop is Running or Stopped: it is stopped only after a *)
(* shutdown request, a stopped loop stays stopped, no tick starts after    *)
(* the shutdown request, and a tick starts only while running is set.      *)
Stopped == {"stopped", "cancelled"}

StoppedIsTerminal ==
    pc \in Stopped => (pc' = pc /\ running' = running /\ ticks' = ticks)

NoTickAfterShutdown == stop_requested => ticks' = ticks

TickOnlyWhileRunning == ticks' # ticks => (running /\ running')

C17_RunningThenStopped ==
    /\ [](pc \in Stopped => (stop_requested /\ ~running))
    /\ [][StoppedIsTerminal]_vars
    /\ [][NoTickAfterShutdown]_vars
    /\ [][TickOnlyWhileRunning]_vars

\* shutdown was requested during a sleep: the task is cancelled between ticks
C17_Witness ==
    /\ pc = "cancelled"
    /\ stop_requested /\ ~running
    /\ ticks >= 1

(* C18: a shutdown request at any point of a tick, also while a send is    *)
(* awaited, lets the tick finish: the loop stops only from its sleep, and  *)
(* when it has stopped both send loops of the last tick have run to their  *)
(* end and the tick's database hand-off, when due, was made.               *)
StopsFromSleepOnly == (pc' \in Stopped /\ pc \notin Stopped) => pc = "sleep"

C18_ShutdownCompletesTick ==
    /\ [][StopsFromSleepOnly]_vars
    /\ [](pc \in Stopped =>
            /\ tick_done.event = ticks
            /\ tick_done.update = ticks
            /\ Len(events_log) = Min(50, ticks)
            /\ (SaveDue(events_log) => db.saved))

\* shutdown was requested while a send of tick 10, a tick that saves, was
\* awaited: the tick ran to its end and the loop stopped at the while test
C18_Witness ==
    /\ pc = "stopped"
    /\ ticks = 10
    /\ db.saved
    /\ bcast.list # <<>>
    /\ tick_done = [event |-> 10, update |-> 10]

(* C19: after a shutdown request all subscriber connections are closed:    *)
(* eventually connected_websockets is empty and no websocket is open.      *)
C19_ShutdownClosesSubscribers ==
    stop_requested ~>
        (connected_websockets = <<>> /\ \A w \in Sockets : ws_state[w] # "open")

(* C20: read_sensors returns normally whatever fails, and every failure is *)
(* visible as a channel status: a channel whose read failed is error or    *)
(* offline, and after a cycle that raised some channel is error or         *)
(* offline.                                                                *)
C20_AcquisitionFailuresBecomeStatus ==
    pc = "log" =>
        /\ \A c \in Channels :
                streak[c] > 0 => sensor_data[c].status \in {"error", "offline"}
        /\ read_errors > 0 =>
                \E c \in Channels : sensor_data[c].status \in {"error", "offline"}

(* C21: a channel whose hardware read failed in a cycle keeps its stored   *)
(* value (the last good one, or the initial default) and, when the cycle   *)
(* runs to its end, has status error, while every channel whose read       *)
(* succeeded in that cycle holds the value read and is online.             *)
GoodRead ==
    [temperature |-> 3600, humidity |-> 5500, vibration |-> 650,
     current |-> 1100, load |-> Min(10000, LoadOf(1100))]

ReadChannels == Channels \ {"machine_temperature"}

ReadFailureFrame ==
    (pc = "read" /\ pc' = "log" /\ RASPBERRY_PI /\ hardware) =>
        \A c \in ReadChannels :
            /\ streak'[c] > 0 => sensor_data'[c].value = sensor_data[c].value
            /\ read_errors' = 0 =>
                    IF streak'[c] > 0
                    THEN sensor_data'[c].status = "error"
                    ELSE sensor_data'[c] = [value |-> GoodRead[c], status |-> "online"]

C21_ReadFailureKeepsValue ==
    /\ [][ReadFailureFrame]_vars
    /\ [](\A c \in ReadChannels :
            sensor_data[c].value \in {InitialSensorData[c].value, GoodRead[c]})

\* the vibration read failed after an earlier good read, the temperature
\* read failed without one, the current read succeeded
C21_Witness ==
    /\ pc = "log" /\ read_errors = 0
    /\ streak["vibration"] > 0
    /\ sensor_data["vibration"] = [value |-> 650, status |-> "error"]
    /\ streak["temperature"] > 0
    /\ sensor_data["temperature"] = [value |-> 2250, status |-> "error"]
    /\ sensor_data["current"] = [value |-> 1100, status |-> "online"]

(* C22: when the model call succeeds with probability p, the score is p    *)
(* (the rule-based sum is not added), the status follows from p by the 0.4 *)
(* and 0.7 thresholds, and the assessment is tagged ml-based.              *)
MlScoreReplaces ==
    (risk # None /\ risk.ml = "ok" /\ ~risk.fault) =>
        /\ risk.score = risk.p
        /\ risk.status = (IF risk.p >= 700 THEN "CRITICAL"
                          ELSE IF risk.p >= 400 THEN "WARNING" ELSE "OK")

C22_MlScoreReplacesTagged ==
    /\ MlScoreReplaces
    /\ (risk # None /\ risk.ml = "ok" /\ ~risk.fault) => risk.tag = "ml-based"

(* C23: when the fan-out of a tick is over (new_event, then sensor_update) *)
(* every websocket for which a send of the tick raised is out of           *)
(* connected_websockets, and every websocket that was listed and is still  *)
(* open is still listed.                                                   *)
C23_FailedSendRemovesSubscriber ==
    (pc = "sleep" /\ bcast # None) =>
        /\ \A s \in send_failed : ~InSeq(connected_websockets, s)
        /\ \A w \in Sockets :
                (InSeq(bcast.list, w) /\ ws_state[w] = "open")
                => InSeq(connected_websockets, w)

(* C24: a failed save_sensor_reading or save_downtime_event never ends the *)
(* monitor task and does not keep the tick's new_event from the            *)
(* subscribers, and no reading is handed to db_service a second time: a    *)
(* tick makes at most one save call and only the ticks on which a save is  *)
(* due make one.                                                           *)
OneSavePerTick ==
    save_calls' # save_calls => (pc = "log" /\ save_calls' = save_calls + 1)

C24_PersistenceAtMostOnce ==
    /\ [](pc # "crashed")
    /\ []((pc = "update_send" /\ ws_i = 0 /\ db.error) =>
            /\ tick_done.event = ticks
            /\ \A w \in Sockets :
                    (InSeq(bcast.list, w) /\ ws_state[w] = "open")
                    => InSeq(received[w], <<"new_event", ticks>>))
    /\ [](db.saved => Len(events_log) % 10 = 0)
    /\ [][OneSavePerTick]_vars

\* tick 10's save failed, its new_event reached the subscriber, and the
\* tick is over with one save call made
C24_Witness ==
    /\ pc = "sleep" /\ ticks = 10
    /\ db.saved /\ db.error /\ db.stored = None
    /\ save_calls = 1
    /\ InSeq(received["w1"], <<"new_event", 10>>)

Copies(seq, x) == Cardinality({k \in 1..Len(seq) : seq[k] = x})

C26_FanOutOverSnapshot ==
    (pc = "update_send" /\ ws_i = 0 /\ bcast # None) =>
        \A w \in Sockets :
            (InSeq(bcast.list, w) /\ ws_state[w] = "open")
            => Copies(received[w], <<"new_event", ticks>>) = 1

(* C27: on a tick that saves, the risk score and status stored with the    *)
(* reading are the score and status of the tick's event, also when the     *)
(* model call answers differently the second time it is made in the tick.  *)
C27_StoredRiskIsEventRisk ==
    (pc = "event_send" /\ db.stored # None) =>
        /\ db.stored.tick = event.timestamp
        /\ db.stored.risk_score = event.risk
        /\ db.stored.status = event.status

(* C28: when the handler's disconnect and broadcast's removal of a failed  *)
(* websocket meet on the same subscriber, in either order, neither raises, *)
(* the subscriber is out of active_connections afterwards and nobody else  *)
(* is removed; a disconnect of a subscriber that is not listed changes     *)
(* nothing.                                                                *)
DisconnectEnded(w) ==
    hpc[w] \in {"listening", "wait_disconnect"} /\ hpc'[w] \in {"gone", "absent"}

DisconnectFrame ==
    \A w \in Sockets :
        DisconnectEnded(w) =>
            /\ ~InSeq(active_connections', w)
            /\ \A v \in Sockets \ {w} :
                    InSeq(active_connections', v) <=> InSeq(active_connections, v)
            /\ ~InSeq(active_connections, w) => active_connections' = active_connections

BroadcastRemovalFrame ==
    \A b \in Broadcasts :
        (bpc[b] = "loop" /\ bpc'[b] = "done") =>
            \A w \in Sockets :
                InSeq(active_connections', w)
                <=> (InSeq(active_connections, w) /\ ~InSeq(to_remove, w))

C28_DisconnectMeetsRemoval ==
    /\ [](\A w \in Sockets : hpc[w] # "raised")
    /\ [][DisconnectFrame]_vars
    /\ [][BroadcastRemovalFrame]_vars

\* a broadcast removed the closed websocket while its handler waited for
\* the lock; the handler's disconnect then found it absent, and the other
\* websocket is still listed
C28_Witness ==
    \E w \in Sockets, v \in Sockets :
        /\ w # v
        /\ hpc[w] = "absent"
        /\ ~InSeq(active_connections, w)
        /\ InSeq(active_connections, v)

(* C29: in hardware mode read_errors is the number of cycles that raised   *)
(* since the last cycle that did not, and a cycle turns a channel's status *)
(* to offline only when it ends with read_errors >= 3.                     *)
OfflineOnlyOnThird ==
    (pc = "read" /\ pc' = "log") =>
        \A c \in Channels :
            (sensor_data'[c].status = "offline" /\ sensor_data[c].status # "offline")
            => read_errors' >= 3

C29_ReadErrorsCountsConsecutive ==
    /\ []((RASPBERRY_PI /\ hardware) => read_errors = ticks - last_ok)
    /\ [][OfflineOnlyOnThird]_vars

\* a cycle that succeeded, then three that raised: every channel went
\* from online or simulated to offline
C29_Witness ==
    /\ pc = "log" /\ ticks = 4
    /\ last_ok = 1 /\ read_errors = 3
    /\ \A c \in Channels : sensor_data[c].status = "offline"

(* C30: after any number of ticks events_log holds at most 50 events,      *)
(* newest first, and once log_event has run in a tick the first of them is *)
(* that tick's event.                                                      *)
C30_EventsLogNewestFifty ==
    /\ Len(events_log) <= 50
    /\ \A i \in 1..Len(events_log), j \in 1..Len(events_log) :
            i < j => events_log[i] > events_log[j]
    /\ pc \in {"event_send", "update_send", "sleep"} =>
            /\ Len(events_log) = Min(50, ticks)
            /\ events_log[1] = ticks

\* tick 52 is logged: the log holds the events of ticks 52 down to 3
C30_Witness ==
    /\ pc = "event_send" /\ ticks = 52
    /\ Len(events_log) = 50
    /\ events_log[1] = 52 /\ events_log[50] = 3

====
